---------------------------- MODULE Spec2Model ----------------------------
(***************************************************************************)
(* A model of libhedra's two problem-formulation layers:                   *)
(*   - hedra::optimization::OffsetMeshTraits (OffsetMeshTraits.h), the     *)
(*     callback object a nonlinear driver iterates on;                     *)
(*   - hedra::affine_maps_precompute / affine_maps_deform                  *)
(*     (affine_maps_deform.h), the per-face affine-map deformation.        *)
(*                                                                         *)
(* Indices are 0-based as in the source: a vector of size n is a function  *)
(* on 0..n-1 and a matrix is a vector of rows.  A double is either a       *)
(* finite value (an integer here, where double arithmetic is exact), NaN,  *)
(* which every arithmetic operation propagates, or indeterminate: what     *)
(* storage nobody has written yet holds.  Indet stands for any double, a   *)
(* different one at each entry; a read of it may go either way.            *)
(***************************************************************************)
EXTENDS Integers, Sequences, FiniteSets, TLC

VARIABLES
    traits,     \* the OffsetMeshTraits object (its public fields)
    x,          \* the driver's iterate, passed to every callback
    iter,       \* number of steps the driver has taken
    inits,      \* number of calls of init on the object
    ret,        \* the last call on traits: its name, what it returned, what it printed
    mesh,       \* the caller's mesh handed to affine_maps_precompute
    adata,      \* the caller's AffineData
    A,          \* the caller's matrix passed as affine_maps_deform's A
    q,          \* the caller's matrix passed as affine_maps_deform's q
    RawResult,  \* the solver's result in the last affine_maps_deform call
    aret        \* the last affine call: its name

vars == <<traits, x, iter, inits, ret, mesh, adata, A, q, RawResult, aret>>
offsetVars == <<traits, x, iter, inits, ret>>
affineVars == <<mesh, adata, A, q, RawResult, aret>>

---------------------------------------------------------------------------
(* Bounds of the model *)

MaxOffset == 2      \* the requested offset d ranges over 1..MaxOffset
MaxPattern == 1     \* number of perturbed iterates the driver may step to
MaxIter == 1        \* number of steps the driver takes
MaxInits == 2       \* number of times init is called on the object
MaxRaw == 3         \* the solver's raw results range over 0..MaxRaw families

---------------------------------------------------------------------------
(* double and Eigen vectors / matrices *)

Fin(v) == [nan |-> FALSE, val |-> v]
NaN == [nan |-> TRUE, val |-> 0]
\* an indeterminate value: any double (any int, for an int member)
Indet == [indet |-> TRUE]
IsIndet(a) == "indet" \in DOMAIN a
\* a determinate NaN
isnan(a) == ~IsIndet(a) /\ a.nan

\* Arithmetic: NaN wins, then an indeterminate operand makes the result
\* indeterminate.
DAdd(a, b) ==
    IF isnan(a) \/ isnan(b) THEN NaN
    ELSE IF IsIndet(a) \/ IsIndet(b) THEN Indet ELSE Fin(a.val + b.val)
DSub(a, b) ==
    IF isnan(a) \/ isnan(b) THEN NaN
    ELSE IF IsIndet(a) \/ IsIndet(b) THEN Indet ELSE Fin(a.val - b.val)
DMul(a, b) ==
    IF isnan(a) \/ isnan(b) THEN NaN
    ELSE IF IsIndet(a) \/ IsIndet(b) THEN Indet ELSE Fin(a.val * b.val)
DNeg(a) == IF isnan(a) THEN NaN ELSE IF IsIndet(a) THEN Indet ELSE Fin(0 - a.val)

\* A vector / matrix written as a tuple, re-indexed from 0.
Vec(s) == [i \in 0..(Len(s) - 1) |-> s[i + 1]]
Mat(s) == [i \in 0..(Len(s) - 1) |-> Vec(s[i + 1])]
DMat(s) == [i \in 0..(Len(s) - 1) |-> [j \in 0..(Len(s[i + 1]) - 1) |-> Fin(s[i + 1][j + 1])]]

EmptyVec == [i \in {} |-> 0]
size(v) == Cardinality(DOMAIN v)
rows(M) == Cardinality(DOMAIN M)
\* a matrix nobody has sized is 0x0
cols(M) == IF rows(M) = 0 THEN 0 ELSE size(M[0])
\* v(k) as a build without bounds checks reads it: past the end of v it
\* reads storage v does not own
at(v, k) == IF k \in DOMAIN v THEN v[k] ELSE Indet

\* v.resize(n): a no-op when the size is already n, otherwise new storage,
\* every entry of which is indeterminate.
Resize(v, n) == IF size(v) = n THEN v ELSE [i \in 0..(n - 1) |-> Indet]

RECURSIVE DSum(_, _)
\* the sum of f over the index set S
DSum(f, S) ==
    IF S = {} THEN Fin(0)
    ELSE LET k == CHOOSE k \in S : TRUE
         IN DAdd(f[k], DSum(f, S \ {k}))

\* Eigen::Triplet<double>(row, col, value)
Triplet(r, c, v) == [row |-> r, col |-> c, value |-> v]

\* SparseMatrix::resize(nr, nc) then setFromTriplets: one stored entry per
\* position named by a triplet, duplicates summed, zeros kept.
SetFromTriplets(nr, nc, list) ==
    [rows |-> nr, cols |-> nc,
     coef |-> [rc \in {<<list[t].row, list[t].col>> : t \in DOMAIN list} |->
                 DSum([t \in DOMAIN list |-> list[t].value],
                      {t \in DOMAIN list : <<list[t].row, list[t].col>> = rc})]]

EmptySparse == [rows |-> 0, cols |-> 0, coef |-> [rc \in {} |-> 0]]

\* sparse * dense vector: every stored entry of a row contributes
SparseTimesVec(M, v) ==
    [r \in 0..(M.rows - 1) |->
        DSum([rc \in DOMAIN M.coef |-> DMul(M.coef[rc], at(v, rc[2]))],
             {rc \in DOMAIN M.coef : rc[1] = r})]

\* RowVector3d a - b
RowSub(a, b) == [k \in 0..2 |-> DSub(a[k], b[k])]
\* squaredNorm of a 3-vector
SquaredNorm(a) == DAdd(DAdd(DMul(a[0], a[0]), DMul(a[1], a[1])), DMul(a[2], a[2]))

---------------------------------------------------------------------------
(* The meshes handed to the library (libhedra representation: V, D, F, EV, *)
(* EF with -1 on a boundary side).                                         *)

Triangle ==
    [V  |-> DMat(<< <<0,0,0>>, <<2,0,1>>, <<1,3,0>> >>),
     D  |-> Vec(<<3>>),
     F  |-> Mat(<< <<0,1,2>> >>),
     EV |-> Mat(<< <<0,1>>, <<1,2>>, <<2,0>> >>),
     EF |-> Mat(<< <<0,-1>>, <<0,-1>>, <<-1,0>> >>)]

TwoTriangles ==
    [V  |-> DMat(<< <<0,0,0>>, <<2,0,0>>, <<2,1,1>>, <<0,3,0>> >>),
     D  |-> Vec(<<3,3>>),
     F  |-> Mat(<< <<0,1,2>>, <<0,2,3>> >>),
     EV |-> Mat(<< <<0,1>>, <<1,2>>, <<2,0>>, <<2,3>>, <<3,0>> >>),
     EF |-> Mat(<< <<0,-1>>, <<0,-1>>, <<0,1>>, <<-1,1>>, <<1,-1>> >>)]

Tetrahedron ==
    [V  |-> DMat(<< <<0,0,0>>, <<1,0,0>>, <<0,2,0>>, <<0,0,3>> >>),
     D  |-> Vec(<<3,3,3,3>>),
     F  |-> Mat(<< <<0,2,1>>, <<0,1,3>>, <<1,2,3>>, <<0,3,2>> >>),
     EV |-> Mat(<< <<0,1>>, <<0,2>>, <<0,3>>, <<1,2>>, <<1,3>>, <<2,3>> >>),
     EF |-> Mat(<< <<0,1>>, <<0,3>>, <<1,3>>, <<0,2>>, <<1,2>>, <<2,3>> >>)]

Cube ==
    [V  |-> DMat(<< <<0,0,0>>, <<1,0,0>>, <<1,1,0>>, <<0,1,0>>,
                    <<0,0,1>>, <<1,0,1>>, <<1,1,1>>, <<0,1,1>> >>),
     D  |-> Vec(<<4,4,4,4,4,4>>),
     F  |-> Mat(<< <<0,3,2,1>>, <<4,5,6,7>>, <<0,1,5,4>>,
                   <<1,2,6,5>>, <<2,3,7,6>>, <<3,0,4,7>> >>),
     EV |-> Mat(<< <<0,1>>, <<1,2>>, <<2,3>>, <<3,0>>,
                   <<4,5>>, <<5,6>>, <<6,7>>, <<7,4>>,
                   <<0,4>>, <<1,5>>, <<2,6>>, <<3,7>> >>),
     EF |-> Mat(<< <<0,2>>, <<0,3>>, <<0,4>>, <<0,5>>,
                   <<1,2>>, <<1,3>>, <<1,4>>, <<1,5>>,
                   <<2,5>>, <<2,3>>, <<3,4>>, <<4,5>> >>)]

Meshes == {Triangle, TwoTriangles, Tetrahedron, Cube}
\* the meshes the offset problem is set up on
OffsetMeshes == {Triangle, TwoTriangles}

---------------------------------------------------------------------------
(* hedra::optimization::OffsetMeshTraits *)

OffsetType == {"VERTEX_OFFSET", "EDGE_OFFSET", "FACE_OFFSET"}

\* oType before init: the member has no initialiser, it holds any int.
IndetOType == "indeterminate"
\* The values a read of oType may see: an indeterminate one is one of the
\* enumerators or none of them.
ReadOType(o) == IF o = IndetOType THEN OffsetType \cup {"invalid"} ELSE {o}

\* offsetTriList with the scale column's sign lost (+origEdge for -origEdge)
offsetTriList_scaleSign(VOrig, EV) ==
    [t \in 0..(9 * rows(EV) - 1) |->
        LET i == t \div 9
            j == (t % 9) \div 3
            m == t % 3
            origEdge == RowSub(VOrig[EV[i][1]], VOrig[EV[i][0]])
        IN CASE m = 0 -> Triplet(3 * i + j, 3 * EV[i][0] + j, Fin(-1))
             [] m = 1 -> Triplet(3 * i + j, 3 * EV[i][1] + j, Fin(1))
             [] m = 2 -> Triplet(3 * i + j, 3 * rows(VOrig) + i, origEdge[j])]

\* offsetTriList as the loop of init pushes it: three triplets per edge i
\* and coordinate j, in the order -v'1, v'2, -s.
offsetTriList(VOrig, EV) ==
    [t \in 0..(9 * rows(EV) - 1) |->
        LET i == t \div 9
            j == (t % 9) \div 3
            m == t % 3
            origEdge == RowSub(VOrig[EV[i][1]], VOrig[EV[i][0]])
        IN CASE m = 0 -> Triplet(3 * i + j, 3 * EV[i][0] + j, Fin(-1))
             [] m = 1 -> Triplet(3 * i + j, 3 * EV[i][1] + j, Fin(1))
             [] m = 2 -> Triplet(3 * i + j, 3 * rows(VOrig) + i, DNeg(origEdge[j]))]

\* The energy part of init: allocated for VERTEX_OFFSET only.
initEnergy(t) ==
    IF t.oType = "VERTEX_OFFSET"
    THEN [t EXCEPT !.EVec = Resize(t.EVec, rows(t.VOrig)),
                   !.JERows = [k \in 0..(3 * rows(t.VOrig) - 1) |-> k \div 3],
                   !.JECols = [k \in 0..(3 * rows(t.VOrig) - 1) |-> k],
                   !.JEVals = Resize(t.JEVals, 3 * rows(t.VOrig))]
    ELSE t

\* init(_VOrig, _D, _F, _EV, _oType, _d) on the object t
init(t, _VOrig, _D, _F, _EV, _oType, _d) ==
    LET list == offsetTriList(_VOrig, _EV)
        n == 3 * rows(_VOrig) + rows(_EV)
    IN initEnergy(
        [t EXCEPT !.VOrig = _VOrig, !.F = _F, !.D = _D, !.EV = _EV,
                  !.oType = _oType, !.d = _d,
                  !.xSize = n,
                  !.CVec = Resize(t.CVec, 3 * rows(_EV)),
                  !.offsetConstMat = SetFromTriplets(3 * rows(_EV), n, list),
                  !.JCRows = [k \in DOMAIN list |-> list[k].row],
                  !.JCCols = [k \in DOMAIN list |-> list[k].col],
                  !.JCVals = [k \in DOMAIN list |-> list[k].value]])

\* initial_solution(x0): the vector the driver's x0 holds afterwards
initial_solution(t, x0) ==
    [k \in 0..(3 * rows(t.VOrig) + rows(t.EV) - 1) |->
        IF k < 3 * rows(t.VOrig) THEN t.VOrig[k \div 3][k % 3] ELSE Fin(0)]

\* currV.row(i) << x.segment(3*i,3).transpose()
currV(t, xv) == [i \in 0..(rows(t.VOrig) - 1) |-> [j \in 0..2 |-> at(xv, 3 * i + j)]]

\* A callback ends in one of these ways: it returns (value "void" or what
\* it returns), leaving the object as traits, or the process ends inside it
\* (value "abort": an Eigen assertion of a build with assertions, a fault of
\* a build without), the object as it was.
Outcome(t, value) == [traits |-> t, value |-> value]

\* x.segment(3*i,3) for i < VOrig.rows() needs 3*VOrig.rows() entries of x
segmentFails(t, xv) == size(xv) < 3 * rows(t.VOrig)
\* VOrig-currV needs two matrices of one size; currV is VOrig.rows() x 3
differenceFails(t) == cols(t.VOrig) # 3
\* offsetConstMat*x needs x.size() = offsetConstMat.cols()
productFails(t, xv) == size(xv) # t.offsetConstMat.cols

\* update_energy without the "- d*d"
update_energy_noOffset(t, xv) ==
    {Outcome(IF t.oType = "VERTEX_OFFSET"
             THEN [t EXCEPT !.EVec =
                     [i \in 0..(rows(t.VOrig) - 1) |->
                         SquaredNorm(RowSub(t.VOrig[i], currV(t, xv)[i]))]]
             ELSE t, "void")}
    \cup (IF segmentFails(t, xv) \/ (t.oType = "VERTEX_OFFSET" /\ differenceFails(t))
          THEN {Outcome(t, "abort")} ELSE {})

\* update_energy(x): its outcomes
update_energy(t, xv) ==
    {Outcome(IF t.oType = "VERTEX_OFFSET"
             THEN [t EXCEPT !.EVec =
                     [i \in 0..(rows(t.VOrig) - 1) |->
                         DSub(SquaredNorm(RowSub(t.VOrig[i], currV(t, xv)[i])),
                              DMul(t.d, t.d))]]
             ELSE t, "void")}
    \cup (IF segmentFails(t, xv) \/ (t.oType = "VERTEX_OFFSET" /\ differenceFails(t))
          THEN {Outcome(t, "abort")} ELSE {})

\* update_jacobian that also rewrites the column indices with the values' loop index
update_jacobian_rewritesPattern(t, xv) ==
    {Outcome(IF t.oType = "VERTEX_OFFSET"
             THEN [t EXCEPT !.JEVals =
                     [k \in 0..(3 * rows(t.VOrig) - 1) |->
                         DMul(Fin(2), t.VOrig[k \div 3][k % 3])],
                            !.JECols = [k \in 0..(3 * rows(t.VOrig) - 1) |-> k % 3]]
             ELSE t, "void")}
    \cup (IF segmentFails(t, xv) THEN {Outcome(t, "abort")} ELSE {})

\* update_jacobian(x): its outcomes
update_jacobian(t, xv) ==
    {Outcome(IF t.oType = "VERTEX_OFFSET"
             THEN [t EXCEPT !.JEVals =
                     [k \in 0..(3 * rows(t.VOrig) - 1) |->
                         DMul(Fin(2), t.VOrig[k \div 3][k % 3])]]
             ELSE t, "void")}
    \cup (IF segmentFails(t, xv) THEN {Outcome(t, "abort")} ELSE {})

\* update_constraints(x): its outcomes
update_constraints(t, xv) ==
    {Outcome([t EXCEPT !.CVec = SparseTimesVec(t.offsetConstMat, xv)], "void")}
    \cup (IF productFails(t, xv) THEN {Outcome(t, "abort")} ELSE {})

\* post_optimization(x): its outcomes
post_optimization(t, xv) ==
    {Outcome([t EXCEPT !.fullSolution = currV(t, xv)], "true")}
    \cup (IF segmentFails(t, xv) THEN {Outcome(t, "abort")} ELSE {})

\* pre_iteration(prevx) and post_iteration(x) have empty bodies
pre_iteration(t, xv) == t
post_iteration(t, xv) == t

\* The indices the isnan loops of update_energy / update_jacobian print:
\* those of the entries that are NaN.
nanIndices(v) == {i \in DOMAIN v : isnan(v[i])}
\* The indices of the indeterminate entries the loops read: each of them is
\* printed or not.
indetIndices(v) == {i \in DOMAIN v : IsIndet(v[i])}

\* What a call hands back to the driver: the returned value and what went to
\* cout (log: the indices printed; maybe: the indices printed or not).  No
\* callback has another way out (none throws, none sets a flag).
Returned(op, value, log, maybe) == [op |-> op, value |-> value, log |-> log, maybe |-> maybe]

---------------------------------------------------------------------------
(* The driver's iterates *)

Pattern(k, p) == ((k + (k \div 3) + p) % 3) - 1

\* the initial solution with every entry moved by -1, 0 or 1
Perturbed(t, p) ==
    [k \in DOMAIN initial_solution(t, EmptyVec) |->
        DAdd(initial_solution(t, EmptyVec)[k], Fin(Pattern(k, p)))]

\* a perturbed iterate with one entry NaN (a failed step solve)
Poisoned(t, p, k) == [Perturbed(t, p) EXCEPT ![k] = NaN]

Iterates(t) ==
    {initial_solution(t, EmptyVec)}
    \cup {Perturbed(t, p) : p \in 1..MaxPattern}
    \cup {Poisoned(t, p, (4 * (p - 1)) % size(initial_solution(t, EmptyVec))) : p \in 1..MaxPattern}

---------------------------------------------------------------------------
(* hedra::affine_maps_precompute and hedra::affine_maps_deform *)

AffineEnergyTypes == {"ARAP", "ASAP"}

\* The three pushes of one k of the constraint loop, for side j of edge i.
constraintTriplets(V, D, EF, EV, CRows, i, j, k) ==
    LET EdgeVector == RowSub(V[EV[i][1]], V[EV[i][0]])
    IN << Triplet(CRows, 3 * EF[i][j] + k, EdgeVector[k]),
          Triplet(CRows, 3 * size(D) + EV[i][0], Fin(-1)),
          Triplet(CRows, 3 * size(D) + EV[i][1], Fin(1)) >>

\* One pass of the body of the loop over j: the if guards the loop over k
\* only, CRows++ follows it.
constraintSide(acc, V, D, EF, EV, i, j) ==
    [list |-> IF EF[i][j] # -1
              THEN acc.list \o constraintTriplets(V, D, EF, EV, acc.CRows, i, j, 0)
                            \o constraintTriplets(V, D, EF, EV, acc.CRows, i, j, 1)
                            \o constraintTriplets(V, D, EF, EV, acc.CRows, i, j, 2)
              ELSE acc.list,
     CRows |-> acc.CRows + 1]

RECURSIVE constraintLoop(_, _, _, _, _, _)
\* the loops over i and j, from pass n on (i = n \div 2, j = n % 2)
constraintLoop(acc, V, D, EF, EV, n) ==
    IF n >= 2 * rows(EF) THEN acc
    ELSE constraintLoop(constraintSide(acc, V, D, EF, EV, n \div 2, n % 2),
                        V, D, EF, EV, n + 1)

\* CTripletList and CRows after the assembly of C
assembleC(V, D, EF, EV) ==
    constraintLoop([list |-> <<>>, CRows |-> 0], V, D, EF, EV, 0)

\* the identity block: one triplet (i, i, 1) for i < 3*F.rows()
identityTriplets(F) == [i \in 1..(3 * rows(F)) |-> Triplet(i - 1, i - 1, Fin(1))]

\* the bending pass without the boundary test
bendingEdge_noSkip(acc, EF, i) ==
    [list |-> acc.list
              \o << Triplet(acc.ERows, 3 * EF[i][0] + 0, Fin(-1)),
                    Triplet(acc.ERows, 3 * EF[i][1] + 0, Fin(1)),
                    Triplet(acc.ERows, 3 * EF[i][0] + 1, Fin(-1)),
                    Triplet(acc.ERows, 3 * EF[i][1] + 1, Fin(1)),
                    Triplet(acc.ERows, 3 * EF[i][0] + 2, Fin(-1)),
                    Triplet(acc.ERows, 3 * EF[i][1] + 2, Fin(1)) >>,
     ERows |-> acc.ERows + 1]

\* One pass of the bending loop, for edge i: boundary edges are skipped.
bendingEdge(acc, EF, i) ==
    IF EF[i][0] = -1 \/ EF[i][1] = -1 THEN acc
    ELSE [list |-> acc.list
                   \o << Triplet(acc.ERows, 3 * EF[i][0] + 0, Fin(-1)),
                         Triplet(acc.ERows, 3 * EF[i][1] + 0, Fin(1)),
                         Triplet(acc.ERows, 3 * EF[i][0] + 1, Fin(-1)),
                         Triplet(acc.ERows, 3 * EF[i][1] + 1, Fin(1)),
                         Triplet(acc.ERows, 3 * EF[i][0] + 2, Fin(-1)),
                         Triplet(acc.ERows, 3 * EF[i][1] + 2, Fin(1)) >>,
          ERows |-> acc.ERows + 1]

RECURSIVE bendingLoop(_, _, _)
bendingLoop(acc, EF, i) ==
    IF i >= rows(EF) THEN acc
    ELSE bendingLoop(bendingEdge(acc, EF, i), EF, i + 1)

\* ETripletList and ERows after the assembly of E
assembleE(F, EF) ==
    bendingLoop([list |-> identityTriplets(F), ERows |-> 3 * rows(F)], EF, 0)

\* igl::min_quad_with_fixed_precompute(E, h, C, true, mqwfd) is external:
\* the handle keeps what it was given.
min_quad_with_fixed_precompute(E, h, C, pd) == [A |-> E, known |-> h, Aeq |-> C, pd |-> pd]

\* affine_maps_precompute(V, D, F, EF, EV, h, adata): adata afterwards
affine_maps_precompute(V, D, F, EF, EV, h, ad) ==
    LET NumVars == 3 * rows(F) + rows(V)
        c == assembleC(V, D, EF, EV)
        e == assembleE(F, EF)
        E == SetFromTriplets(e.ERows, NumVars, e.list)
        C == SetFromTriplets(c.CRows, NumVars, c.list)
    IN [ad EXCEPT !.E = E, !.C = C, !.FSize = rows(F), !.VSize = rows(V),
                  !.mqwfd = min_quad_with_fixed_precompute(E, h, C, TRUE)]

\* M.block(startRow, 0, blockRows, 3)
block(M, startRow, blockRows) == [r \in 0..(blockRows - 1) |-> M[startRow + r]]

\* The parameters A and q of affine_maps_deform when its body ends: they are
\* the function's own copies (both are taken by value).
deformParameters(ad, raw) ==
    [A |-> block(raw, 0, 3 * ad.FSize),
     q |-> block(raw, 3 * ad.FSize, ad.VSize)]

\* affine_maps_deform(adata, qh, q0, A, q): the caller's A and q afterwards.
\* The assignments go to the copies, which end with the call.
affine_maps_deform(ad, raw, callerA, callerq) ==
    LET params == deformParameters(ad, raw)
    IN [A |-> callerA, q |-> callerq]

\* igl::min_quad_with_fixed_solve is external: some matrix with one row per
\* unknown (E.cols()) and three columns.
SolverResults(ad) ==
    {[r \in 0..(ad.E.cols - 1) |-> [c \in 0..2 |-> Fin(s * (r + 1) + c)]] : s \in 0..MaxRaw}

\* the handle targets: the handles' original positions moved by s along z
HandleTargets(V, h, s) == [k \in DOMAIN h |-> [V[h[k]] EXCEPT ![2] = DAdd(@, Fin(s))]]

\* struct AffineData before affine_maps_precompute: E and C are empty, the
\* members aet, bendFactor, FSize and VSize have no initialiser.
FreshAffineData ==
    [E |-> EmptySparse, C |-> EmptySparse, mqwfd |-> EmptyVec,
     aet |-> "indeterminate", bendFactor |-> Indet, FSize |-> Indet, VSize |-> Indet]

---------------------------------------------------------------------------
(* The state after construction *)

\* OffsetMeshTraits(){}: the Eigen members are empty, the scalar members
\* xSize, oType and d have no initialiser.
Constructed ==
    [JERows |-> EmptyVec, JECols |-> EmptyVec, JEVals |-> EmptyVec, EVec |-> EmptyVec,
     xSize |-> Indet,
     JCRows |-> EmptyVec, JCCols |-> EmptyVec, JCVals |-> EmptyVec, CVec |-> EmptyVec,
     VOrig |-> EmptyVec, F |-> EmptyVec, EV |-> EmptyVec, D |-> EmptyVec,
     offsetConstMat |-> EmptySparse,
     oType |-> IndetOType, d |-> Indet,
     fullSolution |-> EmptyVec]

InitOffset ==
    /\ traits = Constructed
    /\ x = EmptyVec
    /\ iter = 0
    /\ inits = 0
    /\ ret = Returned("OffsetMeshTraits", "void", {}, {})

InitAffine ==
    /\ mesh = EmptyVec
    /\ adata = FreshAffineData
    /\ A = EmptyVec
    /\ q = EmptyVec
    /\ RawResult = EmptyVec
    /\ aret = [op |-> "none"]

\* Spec runs the offset problem, SpecA the affine maps.
Init == InitOffset /\ InitAffine

---------------------------------------------------------------------------
(* The calls on the traits object *)

IsInitialised == inits > 0

\* the process has not ended inside a call
Running == ret.value # "abort"

\* x has the size initial_solution gives it
HasIterate == size(x) = 3 * rows(traits.VOrig) + rows(traits.EV)

\* the object as a read of oType sees it
Seen(t) == {[t EXCEPT !.oType = o] : o \in ReadOType(t.oType)}
\* the object after a callback that saw s: oType itself is not written
After(t, s) == [s EXCEPT !.oType = t.oType]

\* init has no precondition: it runs on a used object as on a new one.
CallInit ==
    /\ Running
    /\ inits < MaxInits
    /\ \E m \in OffsetMeshes, o \in OffsetType, dd \in 1..MaxOffset :
          traits' = init(traits, m.V, m.D, m.F, m.EV, o, Fin(dd))
    /\ inits' = inits + 1
    /\ ret' = Returned("init", "void", {}, {})
    /\ UNCHANGED <<x, iter>>

CallInitialSolution ==
    /\ Running
    /\ x' = initial_solution(traits, x)
    /\ ret' = Returned("initial_solution", "void", {}, {})
    /\ UNCHANGED <<traits, iter, inits>>

\* the driver's linearised step solve (external): some next iterate
DriverStep ==
    /\ Running
    /\ IsInitialised /\ HasIterate
    /\ iter < MaxIter
    /\ x' \in Iterates(traits)
    /\ iter' = iter + 1
    /\ ret' = Returned("step", "void", {}, {})
    /\ UNCHANGED <<traits, inits>>

CallPreIteration ==
    /\ Running
    /\ traits' = pre_iteration(traits, x)
    /\ ret' = Returned("pre_iteration", "void", {}, {})
    /\ UNCHANGED <<x, iter, inits>>

CallUpdateEnergy ==
    /\ Running
    /\ \E s \in Seen(traits) : \E o \in update_energy(s, x) :
          /\ traits' = After(traits, o.traits)
          /\ ret' = IF o.value = "abort"
                    THEN Returned("update_energy", "abort", {}, {})
                    ELSE Returned("update_energy", o.value,
                                  nanIndices(o.traits.EVec), indetIndices(o.traits.EVec))
    /\ UNCHANGED <<x, iter, inits>>

CallUpdateJacobian ==
    /\ Running
    /\ \E s \in Seen(traits) : \E o \in update_jacobian(s, x) :
          /\ traits' = After(traits, o.traits)
          /\ ret' = IF o.value = "abort"
                    THEN Returned("update_jacobian", "abort", {}, {})
                    ELSE Returned("update_jacobian", o.value,
                                  nanIndices(o.traits.JEVals), indetIndices(o.traits.JEVals))
    /\ UNCHANGED <<x, iter, inits>>

CallUpdateConstraints ==
    /\ Running
    /\ \E o \in update_constraints(traits, x) :
          /\ traits' = o.traits
          /\ ret' = Returned("update_constraints", o.value, {}, {})
    /\ UNCHANGED <<x, iter, inits>>

CallPostIteration ==
    /\ Running
    /\ traits' = post_iteration(traits, x)
    /\ ret' = Returned("post_iteration", "false", {}, {})
    /\ UNCHANGED <<x, iter, inits>>

CallPostOptimization ==
    /\ Running
    /\ \E o \in post_optimization(traits, x) :
          /\ traits' = o.traits
          /\ ret' = Returned("post_optimization", o.value, {}, {})
    /\ UNCHANGED <<x, iter, inits>>

Next ==
    \/ CallInit /\ UNCHANGED affineVars
    \/ CallInitialSolution /\ UNCHANGED affineVars
    \/ DriverStep /\ UNCHANGED affineVars
    \/ CallPreIteration /\ UNCHANGED affineVars
    \/ CallUpdateEnergy /\ UNCHANGED affineVars
    \/ CallUpdateJacobian /\ UNCHANGED affineVars
    \/ CallUpdateConstraints /\ UNCHANGED affineVars
    \/ CallPostIteration /\ UNCHANGED affineVars
    \/ CallPostOptimization /\ UNCHANGED affineVars

Spec == Init /\ [][Next]_vars

---------------------------------------------------------------------------
(* The calls of the affine-map deformation *)

\* the handle sets the caller may fix
Handles == {Vec(<<0>>), Vec(<<0, 2>>)}

CallPrecompute ==
    /\ \E m \in Meshes, h \in Handles :
          /\ mesh' = [V |-> m.V, D |-> m.D, F |-> m.F, EV |-> m.EV, EF |-> m.EF, h |-> h]
          /\ adata' = affine_maps_precompute(m.V, m.D, m.F, m.EF, m.EV, h, adata)
    /\ aret' = [op |-> "affine_maps_precompute"]
    /\ UNCHANGED <<A, q, RawResult>>

Precomputed == aret.op # "none"

CallDeform ==
    /\ Precomputed
    /\ \E raw \in SolverResults(adata), s \in 0..1 :
          LET after == affine_maps_deform(adata, raw, A, q)
          IN /\ RawResult' = raw
             /\ A' = after.A
             /\ q' = after.q
             /\ aret' = [op |-> "affine_maps_deform", qh |-> HandleTargets(mesh.V, mesh.h, s)]
    /\ UNCHANGED <<mesh, adata>>

NextA ==
    \/ CallPrecompute /\ UNCHANGED offsetVars
    \/ CallDeform /\ UNCHANGED offsetVars

SpecA == Init /\ [][NextA]_vars

---------------------------------------------------------------------------
(* Properties of affine_maps_deform.h, over the behaviours of SpecA *)

\* C1: after affine_maps_deform returns, the caller's A is the leading
\* 3*FSize rows of the solver's raw result and the caller's q the VSize rows
\* that follow.
C1_ResultsObservable ==
    aret.op = "affine_maps_deform" =>
        /\ A = [r \in 0..(3 * adata.FSize - 1) |-> RawResult[r]]
        /\ q = [r \in 0..(adata.VSize - 1) |-> RawResult[3 * adata.FSize + r]]

\* the unknown vector of the identity deformation along axis c
IdentityUnknowns(m, c) ==
    [n \in 0..(3 * rows(m.F) + rows(m.V) - 1) |->
        IF n < 3 * rows(m.F)
        THEN (IF n % 3 = c THEN Fin(1) ELSE Fin(0))
        ELSE m.V[n - 3 * rows(m.F)][c]]

\* C2: every row of the constraint matrix C, applied to the unknown vector
\* of the identity deformation, is exactly 0, along every axis.
C2_IdentitySatisfiesConstraints ==
    Precomputed =>
        \A c \in 0..2 : \A r \in 0..(adata.C.rows - 1) :
            SparseTimesVec(adata.C, IdentityUnknowns(mesh, c))[r] = Fin(0)

\* the existing face sides, the interior edges
FaceSides(m) == {ij \in (DOMAIN m.EF) \X {0, 1} : m.EF[ij[1]][ij[2]] # -1}
InteriorEdges(m) == {i \in DOMAIN m.EF : m.EF[i][0] # -1 /\ m.EF[i][1] # -1}

\* C3: C has exactly one row per existing face side.
C3_OneRowPerFaceSide ==
    Precomputed => adata.C.rows = Cardinality(FaceSides(mesh))

\* the stored entries of row r of a sparse matrix, as a map column -> value
RowEntries(M, r) ==
    [c \in {rc[2] : rc \in {e \in DOMAIN M.coef : e[1] = r}} |-> M.coef[<<r, c>>]]

\* C9: E has 3*F + #interior edges rows and 3*F + |V| columns, its first
\* 3*F rows are the identity on the face-map unknowns, and every further
\* row is the bending row of one interior edge (none for a boundary edge).
C9_EnergyMatrixShape ==
    Precomputed =>
        LET nF == rows(mesh.F)
        IN /\ adata.E.rows = 3 * nF + Cardinality(InteriorEdges(mesh))
           /\ adata.E.cols = 3 * nF + rows(mesh.V)
           /\ \A i \in 0..(3 * nF - 1) :
                 /\ DOMAIN RowEntries(adata.E, i) = {i}
                 /\ adata.E.coef[<<i, i>>] = Fin(1)
           /\ \A i \in InteriorEdges(mesh) :
                 LET r == 3 * nF + Cardinality({e \in InteriorEdges(mesh) : e < i})
                 IN /\ DOMAIN RowEntries(adata.E, r) =
                          {3 * mesh.EF[i][0] + k : k \in 0..2}
                          \cup {3 * mesh.EF[i][1] + k : k \in 0..2}
                    /\ \A k \in 0..2 :
                          /\ adata.E.coef[<<r, 3 * mesh.EF[i][0] + k>>] = Fin(-1)
                          /\ adata.E.coef[<<r, 3 * mesh.EF[i][1] + k>>] = Fin(1)

\* a precomputed mesh with interior and boundary edges
C9_Witness ==
    /\ aret.op = "affine_maps_precompute"
    /\ InteriorEdges(mesh) # {}
    /\ InteriorEdges(mesh) # DOMAIN mesh.EF
    /\ adata.E.rows = 3 * rows(mesh.F) + 1

---------------------------------------------------------------------------
(* Properties of OffsetMeshTraits, over the behaviours of Spec *)

IsVertexOffset == traits.oType = "VERTEX_OFFSET"
\* the last call was op and it returned
ReturnedFrom(op) == ret.op = op /\ ret.value # "abort"
\* x holds the vertex entries / is a solution vector of the problem
HasVertexEntries == ~segmentFails(traits, x)
IsSolutionVector == ~productFails(traits, x)
\* the object a callback leaves when it returns
Normal(outcomes) == (CHOOSE o \in outcomes : o.value # "abort").traits
\* a determinate value that is not 0 / above 0
NonZero(a) == ~IsIndet(a) /\ ~a.nan /\ a.val # 0
Positive(a) == ~IsIndet(a) /\ ~a.nan /\ a.val > 0
Vertices == DOMAIN traits.VOrig
Edges == DOMAIN traits.EV
\* the iterate is the one initial_solution produces
AtInitialSolution == x = initial_solution(traits, x)

\* sum_j (VOrig(i,j) - x[3i+j])^2 - d^2, NaN when a coordinate of x is NaN
EnergyOf(i) ==
    IF \E j \in 0..2 : x[3 * i + j].nan THEN NaN
    ELSE Fin((traits.VOrig[i][0].val - x[3 * i].val) * (traits.VOrig[i][0].val - x[3 * i].val)
           + (traits.VOrig[i][1].val - x[3 * i + 1].val) * (traits.VOrig[i][1].val - x[3 * i + 1].val)
           + (traits.VOrig[i][2].val - x[3 * i + 2].val) * (traits.VOrig[i][2].val - x[3 * i + 2].val)
           - traits.d.val * traits.d.val)

\* C4: for VERTEX_OFFSET, update_energy(x), x holding the entries of every
\* vertex, sets EVec(i) to sum_j (VOrig(i,j) - x[3i+j])^2 - d^2 for every
\* vertex i; on the initial solution every entry is -d^2.
C4_EnergyResidual ==
    (ReturnedFrom("update_energy") /\ IsVertexOffset /\ HasVertexEntries) =>
        /\ DOMAIN traits.EVec = Vertices
        /\ \A i \in Vertices : traits.EVec[i] = EnergyOf(i)
        /\ AtInitialSolution =>
              \A i \in Vertices : traits.EVec[i] = Fin(0 - traits.d.val * traits.d.val)

\* update_energy has run on a moved iterate, and on an initial solution
C4_Witness ==
    /\ ReturnedFrom("update_energy") /\ IsVertexOffset /\ HasVertexEntries
    /\ ~AtInitialSolution
    /\ \E i \in Vertices : Positive(traits.EVec[i])

C4_WitnessInitial ==
    /\ ReturnedFrom("update_energy") /\ IsVertexOffset /\ AtInitialSolution
    /\ traits.VOrig = TwoTriangles.V /\ traits.d = Fin(2)
    /\ \A i \in 0..3 : traits.EVec[i] = Fin(-4)

\* (x[3*EV(i,1)+j] - x[3*EV(i,0)+j]) - x[3|V|+i] * (VOrig(EV(i,1),j) - VOrig(EV(i,0),j)),
\* NaN when one of the three entries of x is NaN
ConstraintOf(i, j) ==
    LET a == x[3 * traits.EV[i][1] + j]
        b == x[3 * traits.EV[i][0] + j]
        s == x[3 * rows(traits.VOrig) + i]
    IN IF a.nan \/ b.nan \/ s.nan THEN NaN
       ELSE Fin((a.val - b.val)
                - s.val * (traits.VOrig[traits.EV[i][1]][j].val - traits.VOrig[traits.EV[i][0]][j].val))

\* C5: update_constraints(x), x a solution vector of the problem, sets
\* CVec(3i+j) to the position difference across edge i minus the edge's
\* scale times the original edge vector; on the initial solution the rows
\* of edge i hold the original edge vector.
C5_ConstraintResidual ==
    (ReturnedFrom("update_constraints") /\ IsSolutionVector) =>
        /\ DOMAIN traits.CVec = 0..(3 * rows(traits.EV) - 1)
        /\ \A i \in Edges : \A j \in 0..2 : traits.CVec[3 * i + j] = ConstraintOf(i, j)
        /\ AtInitialSolution =>
              \A i \in Edges : \A j \in 0..2 :
                  traits.CVec[3 * i + j] =
                      Fin(traits.VOrig[traits.EV[i][1]][j].val - traits.VOrig[traits.EV[i][0]][j].val)

\* update_constraints has run on an iterate with a nonzero edge scale
C5_Witness ==
    /\ ReturnedFrom("update_constraints") /\ IsSolutionVector
    /\ \E i \in Edges : NonZero(x[3 * rows(traits.VOrig) + i])
    /\ \E k \in DOMAIN traits.CVec : NonZero(traits.CVec[k])

\* C6: init with EDGE_OFFSET or FACE_OFFSET ends with an unsupported-variant
\* error, and update_energy / update_jacobian never run on such a problem.
C6_UnsupportedVariantFails ==
    /\ (ret.op = "init" /\ ~IsVertexOffset) => ret.value = "unsupported_variant"
    /\ (IsInitialised /\ ret.op \in {"update_energy", "update_jacobian"}) => IsVertexOffset

\* C7: an update that leaves a NaN in EVec (update_energy) or in JEVals
\* (update_jacobian) hands a numeric error to the driver.
C7_NonFiniteSurfaced ==
    (\/ ReturnedFrom("update_energy") /\ nanIndices(traits.EVec) # {}
     \/ ReturnedFrom("update_jacobian") /\ nanIndices(traits.JEVals) # {})
    => ret.value = "numeric_error"

\* the fields init sets and no callback may touch
Constant(t) ==
    <<t.JCRows, t.JCCols, t.JCVals, t.offsetConstMat, t.JERows, t.JECols,
      t.VOrig, t.F, t.EV, t.D, t.oType, t.d, t.xSize>>

\* what init gave the constant fields
InitPattern ==
    /\ size(traits.JCRows) = 9 * rows(traits.EV)
    /\ size(traits.JCCols) = 9 * rows(traits.EV)
    /\ size(traits.JCVals) = 9 * rows(traits.EV)
    /\ \A i \in Edges : \A k \in 0..8 : traits.JCRows[9 * i + k] = 3 * i + (k \div 3)
    /\ Cardinality(DOMAIN traits.offsetConstMat.coef) = 9 * rows(traits.EV)
    /\ IsVertexOffset =>
          /\ DOMAIN traits.JERows = 0..(3 * rows(traits.VOrig) - 1)
          /\ DOMAIN traits.JECols = 0..(3 * rows(traits.VOrig) - 1)
          /\ \A i \in Vertices : \A j \in 0..2 :
                traits.JERows[3 * i + j] = i /\ traits.JECols[3 * i + j] = 3 * i + j

\* C8: after init, no callback changes the constraint Jacobian triplets,
\* offsetConstMat or the energy Jacobian's sparsity pattern, which stay as
\* init built them (JERows(3i+j) = i, JECols(3i+j) = 3i+j, 9 constraint
\* triplets per edge); only EVec, JEVals, CVec and fullSolution may change.
C8_ConstantAfterInit ==
    /\ [](IsInitialised => InitPattern)
    /\ [][(IsInitialised /\ ret'.op # "init") => Constant(traits') = Constant(traits)]_vars

\* every callback has acted on a VERTEX_OFFSET problem, on a moved iterate
C8_Witness ==
    /\ ReturnedFrom("post_optimization") /\ IsVertexOffset /\ iter > 0
    /\ IsSolutionVector
    /\ traits.EVec = Normal(update_energy(traits, x)).EVec
    /\ traits.JEVals = Normal(update_jacobian(traits, x)).JEVals
    /\ traits.CVec = Normal(update_constraints(traits, x)).CVec
    /\ traits.fullSolution # EmptyVec

\* C10: for VERTEX_OFFSET, update_jacobian(x), x holding the entries of
\* every vertex, writes the derivative of EVec(i) with respect to x[3i+j],
\* 2*(x[3i+j] - VOrig(i,j)), to JEVals(3i+j).
C10_JacobianIsDerivative ==
    (ReturnedFrom("update_jacobian") /\ IsVertexOffset /\ HasVertexEntries) =>
        \A i \in Vertices : \A j \in 0..2 :
            traits.JEVals[3 * i + j] =
                IF x[3 * i + j].nan THEN NaN
                ELSE Fin(2 * (x[3 * i + j].val - traits.VOrig[i][j].val))

===========================================================================
